---------------------------- MODULE Spec2Model ----------------------------
(***************************************************************************)
(* A model of the content-based movie recommender of src/recommender.py:   *)
(* the parsing helpers, load_and_merge, build_tags, the similarity matrix, *)
(* and the MovieRecommender instance with fit / save / load and the three  *)
(* queries recommend / search / top_rated.                                 *)
(*                                                                         *)
(* Conventions.  A Python value that may be None, and a file that may be   *)
(* absent, is a sequence of length 0 or 1 (None == <<>>, Some(x) == <<x>>).*)
(* Text is a sequence of one-character strings, so that lower(), split(),  *)
(* replace() and the substring test are computed, not assumed.             *)
(***************************************************************************)
EXTENDS Integers, Sequences, FiniteSets, TLC

VARIABLES
    cell,        \* the cell handed to parse_list_column / get_director
    parsed,      \* outcome of the last parsing call
    mcols,       \* column names of the movies CSV handed to load_and_merge
    ccols,       \* column names of the credits CSV handed to load_and_merge
    merged,      \* outcome of the last load_and_merge call (columns only)
    raw,         \* fit's local `raw`: the merged table (None before any fit)
    df,          \* self.df
    similarity,  \* self.similarity
    index_map,   \* self._index_map, a dict in insertion order
    disk,        \* the artifact directory: movies.pkl and similarity.pkl
    pc,          \* position of the one writer (fit / save / load in progress)
    entry,       \* what the running load saw when it was called
    out          \* outcome of the last call made on the instance

vars == <<cell, parsed, mcols, ccols, merged, raw, df, similarity,
          index_map, disk, pc, entry, out>>

None == <<>>
Some(x) == <<x>>

\* ------------------------------------------------------------------ bounds
MaxItems == 3
MaxN == 3

\* --------------------------------------------------------- generic helpers
Range(s) == {s[i] : i \in DOMAIN s}

Min(a, b) == IF a <= b THEN a ELSE b

Max(a, b) == IF a >= b THEN a ELSE b

\* s[:n] of Python, for any integer n
Slice(s, n) ==
    IF n >= 0 THEN SubSeq(s, 1, Min(n, Len(s)))
    ELSE SubSeq(s, 1, Max(Len(s) + n, 0))

\* ------------------------------------------------------------------- text
IsSpace(c) == c = " "

LowerChar(c) ==
    CASE c = "A" -> "a"
      [] c = "B" -> "b"
      [] c = "D" -> "d"
      [] c = "N" -> "n"
      [] OTHER -> c

\* str.lower()
Lower(t) == [i \in DOMAIN t |-> LowerChar(t[i])]

\* str.replace(" ", "")
StripSpaces(t) == SelectSeq(t, LAMBDA c : ~IsSpace(c))

\* str.split(): the maximal runs of non-space characters, in order
RECURSIVE SplitFrom(_, _, _)
SplitFrom(t, i, cur) ==
    IF i > Len(t) THEN (IF cur = <<>> THEN <<>> ELSE <<cur>>)
    ELSE IF IsSpace(t[i])
         THEN (IF cur = <<>> THEN <<>> ELSE <<cur>>) \o SplitFrom(t, i + 1, <<>>)
         ELSE SplitFrom(t, i + 1, Append(cur, t[i]))

Split(t) == SplitFrom(t, 1, <<>>)

\* " ".join(list)
RECURSIVE Join(_)
Join(ws) ==
    IF ws = <<>> THEN <<>>
    ELSE IF Len(ws) = 1 THEN ws[1]
    ELSE ws[1] \o <<" ">> \o Join(Tail(ws))

\* `q in t` for strings
Contains(t, q) ==
    \E k \in 0..(Len(t) - Len(q)) : SubSeq(t, k + 1, k + Len(q)) = q

\* ------------------------------------------------------------------ cells
(* A cell of a table.  k = "nan": absent (float NaN); k = "num": a number  *)
(* n; k = "str": text.  A text cell of a JSON-like column carries what     *)
(* ast.literal_eval makes of it: syn = "invalid" (not Python syntax),      *)
(* "name" (an expression that is no literal), "int" and "strlit" (literals *)
(* that are no list) or "list", with the list's elements in items.         *)
(* A plain text cell has syn = "text" and its characters in txt.           *)
Nan == [k |-> "nan", syn |-> "", n |-> 0, txt |-> <<>>, items |-> <<>>]

Num(v) == [k |-> "num", syn |-> "", n |-> v, txt |-> <<>>, items |-> <<>>]

Text(t) == [k |-> "str", syn |-> "text", n |-> 0, txt |-> t, items |-> <<>>]

Src(s) == [k |-> "str", syn |-> s, n |-> 0, txt |-> <<>>, items |-> <<>>]

StrLit(t) == [k |-> "str", syn |-> "strlit", n |-> 0, txt |-> t, items |-> <<>>]

List(es) == [k |-> "str", syn |-> "list", n |-> 0, txt |-> <<>>, items |-> es]

\* pandas isna()
IsNa(c) == c.k = "nan"

(* An element of a parsed list: a dict (its items in d, each a key with a  *)
(* value that is a string s or, with isstr = FALSE, a number) or, with     *)
(* isdict = FALSE, a number.                                               *)
Director == <<"D", "i", "r">>

Item(key, s) == [key |-> key, isstr |-> TRUE, s |-> s]

NumItem(key) == [key |-> key, isstr |-> FALSE, s |-> <<>>]

Dict(d) == [isdict |-> TRUE, d |-> d]

NotADict == [isdict |-> FALSE, d |-> <<>>]

HasKey(e, key) == \E i \in DOMAIN e.d : e.d[i].key = key

Get(e, key) == e.d[CHOOSE i \in DOMAIN e.d : e.d[i].key = key]

\* ---------------------------------------------------------------- parsing
Ok(v) == [raised |-> "none", val |-> v]

Raise(x) == [raised |-> x, val |-> <<>>]

\* ast.literal_eval(obj): the exception it raises, or "none"
LiteralEval(obj) ==
    CASE obj.k # "str" -> "ValueError"           \* malformed node or string
      [] obj.k = "str" /\ obj.syn = "invalid" -> "SyntaxError"
      [] obj.k = "str" /\ obj.syn = "name" -> "ValueError"
      [] obj.k = "str" /\ obj.syn = "text" ->
            \* one bare word is a Name node; anything else is no expression
            IF Len(Split(obj.txt)) = 1 THEN "ValueError" ELSE "SyntaxError"
      [] OTHER -> "none"

\* i[key].replace(" ", "") for one element i of the list
NameOf(e, key) ==
    IF ~e.isdict THEN Raise("TypeError")          \* 'int' is not subscriptable
    ELSE IF ~HasKey(e, key) THEN Raise("KeyError")
    ELSE IF ~Get(e, key).isstr THEN Raise("AttributeError")
    ELSE Ok(StripSpaces(Get(e, key).s))

\* [i[key].replace(" ", "") for i in items]: stops at the first exception
RECURSIVE NamesOf(_, _)
NamesOf(es, key) ==
    IF es = <<>> THEN Ok(<<>>)
    ELSE LET h == NameOf(Head(es), key)
         IN IF h.raised # "none" THEN Raise(h.raised)
            ELSE LET r == NamesOf(Tail(es), key)
                 IN IF r.raised # "none" THEN r
                    ELSE Ok(<<h.val>> \o r.val)

\* the exceptions the two helpers catch
Caught == {"ValueError", "TypeError"}

Recover(r) == IF r.raised \in Caught THEN Ok(<<>>) ELSE r

\* parse_list_column(obj, key, limit); limit is None or Some(n)
parse_list_column(obj, key, limit) ==
    LET ev == LiteralEval(obj)
        body ==
            IF ev # "none" THEN Raise(ev)
            ELSE IF obj.syn \in {"int"} THEN Raise("TypeError")   \* not iterable
            ELSE IF obj.syn = "strlit" THEN
                \* iterating a str gives 1-character strs; str[key] is a TypeError
                (IF obj.txt = <<>> THEN Ok(<<>>) ELSE Raise("TypeError"))
            ELSE LET names == NamesOf(obj.items, key)
                 IN IF names.raised # "none" THEN names
                    ELSE IF limit # None /\ limit[1] # 0
                         THEN Ok(Slice(names.val, limit[1]))
                         ELSE names
    IN Recover(body)

\* the loop of get_director over the crew list: the list it returns
RECURSIVE FirstDirector(_)
FirstDirector(es) ==
    IF es = <<>> THEN Ok(<<>>)
    ELSE LET m == Head(es)
         IN IF ~m.isdict THEN Raise("AttributeError")   \* no attribute 'get'
            ELSE IF HasKey(m, "job") /\ Get(m, "job").isstr
                    /\ Get(m, "job").s = Director
                 THEN LET nm == NameOf(m, "name")
                      IN IF nm.raised # "none" THEN nm ELSE Ok(<<nm.val>>)
                 ELSE FirstDirector(Tail(es))

\* get_director(crew_json)
get_director(crew_json) ==
    LET ev == LiteralEval(crew_json)
        body ==
            IF ev # "none" THEN Raise(ev)
            ELSE IF crew_json.syn = "int" THEN Raise("TypeError")  \* not iterable
            ELSE IF crew_json.syn = "strlit" THEN
                \* the elements of a str are strs, which have no get()
                (IF crew_json.txt = <<>> THEN Ok(<<>>) ELSE Raise("AttributeError"))
            ELSE FirstDirector(crew_json.items)
    IN Recover(body)

\* clean_overview(text)
clean_overview(text) == IF text.k = "str" THEN Split(text.txt) ELSE <<>>

\* ----------------------------------------------- the parsing helpers, called
Entities ==
    { Dict(<<Item("name", <<"A", " ", "b">>)>>),
      Dict(<<NumItem("id")>>),
      Dict(<<NumItem("name")>>),
      NotADict,
      Dict(<<Item("job", Director), Item("name", <<"N", " ", "a">>)>>),
      Dict(<<Item("job", Director)>>),
      Dict(<<Item("job", <<"A">>), Item("name", <<"b">>)>>) }

EntityLists ==
    {<<>>} \cup {<<e>> : e \in Entities}
           \cup {<<e, f>> : e \in Entities, f \in Entities}

ParseCells ==
    {Nan, Num(5), Src("invalid"), Src("name"), Src("int"),
     StrLit(<<>>), StrLit(<<"a">>), Text(<<"a", " ", "b">>), Text(<<"a">>)}
    \cup {List(es) : es \in EntityLists}

Limits == {None} \cup {Some(n) : n \in 0..MaxN}

NoParse == [fn |-> "", raised |-> "none", val |-> <<>>]

ParseListColumnCall ==
    /\ \E limit \in Limits :
          LET r == parse_list_column(cell, "name", limit)
          IN parsed' = [fn |-> "parse_list_column", raised |-> r.raised, val |-> r.val]
    /\ UNCHANGED <<cell, mcols, ccols, merged, raw, df, similarity,
                   index_map, disk, pc, entry, out>>

GetDirectorCall ==
    /\ LET r == get_director(cell)
       IN parsed' = [fn |-> "get_director", raised |-> r.raised, val |-> r.val]
    /\ UNCHANGED <<cell, mcols, ccols, merged, raw, df, similarity,
                   index_map, disk, pc, entry, out>>

\* ---------------------------------------------------------- load_and_merge
(* A column label of a merged frame: the name and the suffix pandas adds   *)
(* to a non-key column present in both frames ("_x" left, "_y" right).     *)
Col(name) == [name |-> name, sfx |-> ""]

Needed ==
    <<"id", "title", "overview", "genres", "keywords", "cast", "crew",
      "vote_average", "vote_count", "release_date", "poster_path">>

\* credits.rename(columns={"movie_id": "id"})
Rename(cols) ==
    {IF c = "movie_id" THEN "id" ELSE c : c \in cols}

\* movies.merge(credits, on="id"): the exception, or the merged column labels
MergeOn(left, right, key) ==
    IF key \notin left \/ key \notin right
    THEN [raised |-> "KeyError", cols |-> {}]
    ELSE LET both == (left \cap right) \ {key}
         IN [raised |-> "none",
             cols |-> {Col(c) : c \in (left \cup right) \ both}
                      \cup {[name |-> c, sfx |-> "_x"] : c \in both}
                      \cup {[name |-> c, sfx |-> "_y"] : c \in both}]

\* df[[...]]: KeyError when a requested label is no column
SelectCols(m, want) ==
    IF m.raised # "none" THEN m
    ELSE IF \E i \in DOMAIN want : Col(want[i]) \notin m.cols
         THEN [raised |-> "KeyError", cols |-> {}]
         ELSE [raised |-> "none", cols |-> {Col(want[i]) : i \in DOMAIN want}]

\* the columns load_and_merge returns for two CSVs with these columns
MergeColumns(movies, credits) ==
    SelectCols(MergeOn(movies, Rename(credits), "id"), Needed)

\* the rows of movies.merge(credits, on="id"): an inner join in left order
RECURSIVE InnerJoin(_, _)
InnerJoin(movies, credits) ==
    IF movies = <<>> THEN <<>>
    ELSE LET m == Head(movies)
             hits == SelectSeq(credits, LAMBDA c : c.id = m.id)
         IN [j \in DOMAIN hits |->
                [id |-> m.id, title |-> m.title, overview |-> m.overview,
                 genres |-> m.genres, keywords |-> m.keywords,
                 cast |-> hits[j].cast, crew |-> hits[j].crew,
                 vote_average |-> m.vote_average, vote_count |-> m.vote_count,
                 release_date |-> m.release_date, poster_path |-> m.poster_path]]
            \o InnerJoin(Tail(movies), credits)

\* load_and_merge on a pair of sources src
load_and_merge(src) ==
    LET c == MergeColumns(src.mcols, src.ccols)
    IN IF c.raised # "none" THEN Raise(c.raised)
       ELSE Ok(InnerJoin(src.movies, src.credits))

\* ---------------------------------------------------------------- build_tags
CastLimit == 3

\* a row with a NaN in any column, which df.dropna() removes
HasNa(r) ==
    \/ IsNa(r.id) \/ IsNa(r.title) \/ IsNa(r.overview) \/ IsNa(r.genres)
    \/ IsNa(r.keywords) \/ IsNa(r.cast) \/ IsNa(r.crew)
    \/ IsNa(r.vote_average) \/ IsNa(r.vote_count) \/ IsNa(r.release_date)
    \/ IsNa(r.poster_path)

\* df.dropna(inplace=True)
DropNa(rows) == SelectSeq(rows, LAMBDA r : ~HasNa(r))

\* the four parsed columns of one row, in the order build_tags applies them
ParsedOf(r) ==
    <<parse_list_column(r.genres, "name", None),
      parse_list_column(r.keywords, "name", None),
      parse_list_column(r.cast, "name", Some(CastLimit)),
      get_director(r.crew)>>

\* " ".join(overview + genres + keywords + cast + crew).lower()
TagsOf(r) ==
    LET p == ParsedOf(r)
    IN Lower(Join(clean_overview(r.overview)
                  \o p[1].val \o p[2].val \o p[3].val \o p[4].val))

\* the exception an apply() of build_tags lets through, or "none"
TagsRaise(rows) ==
    IF \E i \in DOMAIN rows : \E c \in 1..4 : ParsedOf(rows[i])[c].raised # "none"
    THEN LET c == CHOOSE c \in 1..4 :
                    /\ \E i \in DOMAIN rows : ParsedOf(rows[i])[c].raised # "none"
                    /\ \A b \in 1..(c - 1) : \A i \in DOMAIN rows :
                           ParsedOf(rows[i])[b].raised = "none"
             i == CHOOSE i \in DOMAIN rows :
                    /\ ParsedOf(rows[i])[c].raised # "none"
                    /\ \A j \in 1..(i - 1) : ParsedOf(rows[j])[c].raised = "none"
         IN ParsedOf(rows[i])[c].raised
    ELSE "none"

\* build_tags without its dropna
KeepAllRows(rows) == rows

\* the rows build_tags goes on with, line 76
KeepRows(rows) == DropNa(rows)

\* build_tags(df)
build_tags(rows) ==
    LET kept == KeepRows(rows)
    IN IF TagsRaise(kept) # "none" THEN Raise(TagsRaise(kept))
       ELSE Ok([i \in DOMAIN kept |->
                  [id |-> kept[i].id, title |-> kept[i].title,
                   tags |-> TagsOf(kept[i]),
                   vote_average |-> kept[i].vote_average,
                   vote_count |-> kept[i].vote_count,
                   release_date |-> kept[i].release_date,
                   poster_path |-> kept[i].poster_path]])

\* --------------------------------------------------- build_similarity_matrix
MaxFeatures == 5000

\* sklearn's English stop words, those the model's alphabet can spell
StopWords == {<<"a">>, <<"a", "n">>, <<"a", "n", "d">>, <<"i">>, <<"i", "n">>}

\* CountVectorizer's analyzer: tokens of two or more word characters, lower
\* case, stop words removed
Tokens(tags) ==
    SelectSeq(Split(Lower(tags)), LAMBDA w : Len(w) >= 2 /\ w \notin StopWords)

Vocabulary(rows) == UNION {Range(Tokens(rows[i].tags)) : i \in DOMAIN rows}

Count(ws, w) == Cardinality({i \in DOMAIN ws : ws[i] = w})

RECURSIVE SumOver(_, _)
SumOver(S, f) ==
    IF S = {} THEN 0
    ELSE LET x == CHOOSE x \in S : TRUE IN f[x] + SumOver(S \ {x}, f)

Dot(V, a, b) == SumOver(V, [w \in V |-> Count(a, w) * Count(b, w)])

(* cosine_similarity(vectors)[i][j], kept exact as the fraction <<p, q>> of *)
(* its square, dot(i,j)^2 / (dot(i,i) * dot(j,j)); 0 for an all-zero vector *)
Cosine(V, a, b) ==
    IF Dot(V, a, a) = 0 \/ Dot(V, b, b) = 0 THEN <<0, 1>>
    ELSE <<Dot(V, a, b) * Dot(V, a, b), Dot(V, a, a) * Dot(V, b, b)>>

\* build_similarity_matrix(df): the matrix, or the vectorizer's ValueError
build_similarity_matrix(rows) ==
    LET V == Vocabulary(rows)
    IN IF V = {} THEN Raise("ValueError")         \* empty vocabulary
       \* more than max_features distinct tokens: the cut to the most
       \* frequent ones is not modelled (no input here has that many)
       ELSE IF Cardinality(V) > MaxFeatures THEN Raise("Unmodelled")
       ELSE Ok([i \in DOMAIN rows |-> [j \in DOMAIN rows |->
                  Cosine(V, Tokens(rows[i].tags), Tokens(rows[j].tags))]])

\* score a >= score b, and a = b, for two fractions
ScoreGe(a, b) == a[1] * b[2] >= b[1] * a[2]

ScoreEq(a, b) == a[1] * b[2] = b[1] * a[2]

\* ----------------------------------------------------------- the title index
(* {title: idx for idx, title in enumerate(df["title"])}: a dict keeps a   *)
(* key where it was first inserted and the value last written to it.       *)
IndexOf(rows) ==
    LET firsts == SelectSeq([i \in DOMAIN rows |-> i],
                     LAMBDA i : \A j \in 1..(i - 1) : rows[j].title.txt # rows[i].title.txt)
    IN [k \in DOMAIN firsts |->
          [title |-> rows[firsts[k]].title.txt,
           idx |-> CHOOSE i \in DOMAIN rows :
                      /\ rows[i].title.txt = rows[firsts[k]].title.txt
                      /\ \A j \in DOMAIN rows :
                            rows[j].title.txt = rows[i].title.txt => j <= i]]

InIndex(im, title) == \E k \in DOMAIN im : im[k].title = title

Lookup(im, title) == im[CHOOSE k \in DOMAIN im : im[k].title = title].idx

\* -------------------------------------------------------------- the queries
(* Catalog positions are 1-based here (i stands for Python's i - 1).  A    *)
(* returned row carries its catalog position, which pandas keeps as the    *)
(* row's index label until reset_index.                                    *)
(* The score of a row is the matrix entry itself; the result's             *)
(* similarity_score column is that entry rounded to 4 places.              *)
NoScore == <<0, 1>>

OutRow(rows, i, sc) ==
    [pos |-> i, title |-> rows[i].title.txt, score |-> sc,
     va |-> rows[i].vote_average.n, vc |-> rows[i].vote_count.n]

Result(op, title, n, raised, rows, titles) ==
    [op |-> op, title |-> title, n |-> n, raised |-> raised,
     rows |-> rows, titles |-> titles]

\* x put into the descending sequence s behind every element not below it
RECURSIVE InsertDesc(_, _)
InsertDesc(s, x) ==
    IF s = <<>> THEN <<x>>
    ELSE IF ScoreGe(Head(s).score, x.score)
         THEN <<Head(s)>> \o InsertDesc(Tail(s), x)
         ELSE <<x>> \o s

RECURSIVE SortFrom(_, _)
SortFrom(s, acc) ==
    IF s = <<>> THEN acc ELSE SortFrom(Tail(s), InsertDesc(acc, Head(s)))

Reverse(s) == [i \in DOMAIN s |-> s[Len(s) + 1 - i]]

\* a descending sort that does not keep equal elements in their first order
SortDescUnstable(s) == SortFrom(Reverse(s), <<>>)

\* sorted(scores, key=lambda x: x[1], reverse=True): stable
SortDesc(s) == SortFrom(s, <<>>)

\* recommend(title, n) on an instance with these three fields
recommend(d, sim, im, title, n) ==
    IF ~InIndex(im, title) THEN Result("recommend", title, n, "ValueError", <<>>, <<>>)
    ELSE LET idx == Lookup(im, title)
         IN IF sim = None
            THEN Result("recommend", title, n, "TypeError", <<>>, <<>>)
            ELSE IF idx > Len(sim[1])
            THEN Result("recommend", title, n, "IndexError", <<>>, <<>>)
            ELSE LET row == sim[1][idx]
                     scores == SortDesc([j \in DOMAIN row |-> [pos |-> j, score |-> row[j]]])
                     top == Slice(SelectSeq(scores, LAMBDA x : x.pos # idx), n)
                 IN IF d = None
                    THEN Result("recommend", title, n, "AttributeError", <<>>, <<>>)
                    ELSE IF \E k \in DOMAIN top : top[k].pos > Len(d[1])
                    THEN Result("recommend", title, n, "IndexError", <<>>, <<>>)
                    ELSE Result("recommend", title, n, "none",
                                [k \in DOMAIN top |-> OutRow(d[1], top[k].pos, top[k].score)],
                                <<>>)

\* search with its slice one too long
search_OffByOne(im, query, limit) ==
    LET q == Lower(query)
        hits == SelectSeq(im, LAMBDA e : Contains(Lower(e.title), q))
    IN Result("search", query, limit, "none", <<>>,
              Slice([k \in DOMAIN hits |-> hits[k].title], limit + 1))

\* search(query, limit)
search(im, query, limit) ==
    LET q == Lower(query)
        hits == SelectSeq(im, LAMBDA e : Contains(Lower(e.title), q))
    IN Result("search", query, limit, "none", <<>>,
              Slice([k \in DOMAIN hits |-> hits[k].title], limit))

VoteThreshold == 500

\* the permutations of a finite set, as sequences
Perms(S) ==
    {p \in [1..Cardinality(S) -> S] : \A x \in S : \E i \in DOMAIN p : p[i] = x}

(* sort_values("vote_average", ascending=False) with the default          *)
(* kind="quicksort", which is not stable: rows of equal vote_average come *)
(* out in an order the numpy build decides.  Every descending order of    *)
(* the positions in P is an outcome.                                      *)
SortValuesDesc(rows, P) ==
    {p \in Perms(P) :
        \A i, j \in DOMAIN p :
            i < j => rows[p[i]].vote_average.n >= rows[p[j]].vote_average.n}

\* the results top_rated(n) can return
top_rated(d, n) ==
    IF d = None THEN {Result("top_rated", <<>>, n, "TypeError", <<>>, <<>>)}
    ELSE LET rows == d[1]
             P == {i \in DOMAIN rows : rows[i].vote_count.n > VoteThreshold}
         IN {Result("top_rated", <<>>, n, "none",
                    [k \in DOMAIN Slice(p, n) |-> OutRow(rows, p[k], NoScore)], <<>>)
             : p \in SortValuesDesc(rows, P)}

\* ------------------------------------------------------------- the instance
NoOut == Result("", <<>>, 0, "none", <<>>, <<>>)

Pending(op) == Result(op, <<>>, 0, "pending", <<>>, <<>>)

Done(op, raised) == Result(op, <<>>, 0, raised, <<>>, <<>>)

NoEntry == [fresh |-> FALSE, blobs |-> 0]

NoDisk == [movies |-> None, similarity |-> None]

\* the state __init__ leaves
IsFresh == df = None /\ similarity = None /\ index_map = <<>>

Pure == <<cell, parsed, mcols, ccols, merged>>

\* rec = MovieRecommender()
New ==
    /\ pc = "idle"
    /\ df' = None /\ similarity' = None /\ index_map' = <<>>
    /\ out' = Done("new", "none")
    /\ UNCHANGED <<Pure, raw, disk, pc, entry>>

\* fit, lines 133-134, on one of the source pairs in S
FitTags(S) ==
    /\ pc = "idle"
    /\ \E src \in S :
         LET m == load_and_merge(src)
             t == build_tags(m.val)
         IN IF m.raised # "none"
            THEN /\ out' = Done("fit", m.raised)
                 /\ UNCHANGED <<raw, df, pc>>
            ELSE /\ raw' = Some(m.val)
                 /\ IF t.raised # "none"
                    THEN /\ out' = Done("fit", t.raised)
                         /\ UNCHANGED <<df, pc>>
                    ELSE /\ df' = Some(t.val)
                         /\ pc' = "fit_sim"
                         /\ out' = Pending("fit")
    /\ UNCHANGED <<Pure, similarity, index_map, disk, entry>>

\* fit, line 135
FitSimilarity ==
    /\ pc = "fit_sim"
    /\ LET r == build_similarity_matrix(df[1])
       IN IF r.raised # "none"
          THEN /\ out' = Done("fit", r.raised)
               /\ pc' = "idle"
               /\ UNCHANGED similarity
          ELSE /\ similarity' = Some(r.val)
               /\ pc' = "fit_index"
               /\ out' = Pending("fit")
    /\ UNCHANGED <<Pure, raw, df, index_map, disk, entry>>

\* fit, lines 136-139
FitIndex ==
    /\ pc = "fit_index"
    /\ index_map' = IndexOf(df[1])
    /\ pc' = "idle"
    /\ out' = Done("fit", "none")
    /\ UNCHANGED <<Pure, raw, df, similarity, disk, entry>>

\* save, lines 143-145: pickle.dump(self.similarity), None included
SaveSimilarity ==
    /\ pc = "idle"
    /\ disk' = [disk EXCEPT !.similarity = Some(similarity)]
    /\ pc' = "save_movies"
    /\ out' = Pending("save")
    /\ UNCHANGED <<Pure, raw, df, similarity, index_map, entry>>

\* save, lines 146-147: self.df.to_pickle
SaveCatalog ==
    /\ pc = "save_movies"
    /\ IF df = None
       THEN /\ out' = Done("save", "AttributeError")
            /\ UNCHANGED disk
       ELSE /\ disk' = [disk EXCEPT !.movies = Some(df)]
            /\ out' = Done("save", "none")
    /\ pc' = "idle"
    /\ UNCHANGED <<Pure, raw, df, similarity, index_map, entry>>

\* save stopped between its two writes (to_pickle raises OSError, or a kill)
SaveInterrupted ==
    /\ pc = "save_movies"
    /\ pc' = "idle"
    /\ out' = Done("save", "OSError")
    /\ UNCHANGED <<Pure, raw, df, similarity, index_map, disk, entry>>

Blobs(d) ==
    (IF d.movies # None THEN 1 ELSE 0) + (IF d.similarity # None THEN 1 ELSE 0)

\* load, line 150
LoadCatalog ==
    /\ pc = "idle"
    /\ entry' = [fresh |-> IsFresh, blobs |-> Blobs(disk)]
    /\ IF disk.movies = None
       THEN /\ out' = Done("load", "FileNotFoundError")
            /\ UNCHANGED <<df, pc>>
       ELSE /\ df' = disk.movies[1]
            /\ pc' = "load_sim"
            /\ out' = Pending("load")
    /\ UNCHANGED <<Pure, raw, similarity, index_map, disk>>

\* load, lines 151-152
LoadSimilarity ==
    /\ pc = "load_sim"
    /\ IF disk.similarity = None
       THEN /\ out' = Done("load", "FileNotFoundError")
            /\ pc' = "idle"
            /\ UNCHANGED similarity
       ELSE /\ similarity' = disk.similarity[1]
            /\ pc' = "load_index"
            /\ out' = Pending("load")
    /\ UNCHANGED <<Pure, raw, df, index_map, disk, entry>>

\* load, lines 153-156
LoadIndex ==
    /\ pc = "load_index"
    /\ IF df = None
       THEN /\ out' = Done("load", "TypeError")
            /\ UNCHANGED index_map
       ELSE /\ index_map' = IndexOf(df[1])
            /\ out' = Done("load", "none")
    /\ pc' = "idle"
    /\ UNCHANGED <<Pure, raw, df, similarity, disk, entry>>

\* the environment: similarity.pkl is missing from the directory load reads
RemoveSimilarityBlob ==
    /\ pc = "idle"
    /\ disk.similarity # None
    /\ disk' = [disk EXCEPT !.similarity = None]
    /\ UNCHANGED <<Pure, raw, df, similarity, index_map, pc, entry, out>>

Instance == <<raw, df, similarity, index_map, disk, pc, entry>>

\* a reader calls recommend
Recommend(T, N) ==
    /\ \E title \in T, n \in N : out' = recommend(df, similarity, index_map, title, n)
    /\ UNCHANGED <<Pure, Instance>>

\* a reader calls search
Search(Q, N) ==
    /\ \E q \in Q, limit \in N : out' = search(index_map, q, limit)
    /\ UNCHANGED <<Pure, Instance>>

\* a reader calls top_rated
TopRated(N) ==
    /\ \E n \in N : out' \in top_rated(df, n)
    /\ UNCHANGED <<Pure, Instance>>

\* ---------------------------------------------------------------- the inputs
\* the columns of two CSVs that load_and_merge accepts
MovieCols ==
    {"id", "title", "overview", "genres", "keywords", "vote_average",
     "vote_count", "release_date", "poster_path"}

CreditCols == {"movie_id", "cast", "crew"}

\* the columns of the TMDB 5000 CSVs the module's header names
TmdbMovieCols == (MovieCols \ {"poster_path"}) \cup {"budget"}

TmdbCreditCols == {"movie_id", "title", "cast", "crew"}

Genre == Dict(<<Item("name", <<"B", " ", "b">>)>>)

\* one item: the cells that vary, the rest well-formed and present
ItemOf(title, overview, genres, va, vc, poster) ==
    [title |-> title, overview |-> overview, genres |-> genres,
     keywords |-> List(<<>>), cast |-> List(<<>>), crew |-> List(<<>>),
     vote_average |-> va, vote_count |-> vc,
     release_date |-> Text(<<"d">>), poster_path |-> poster]

\* the two CSVs that hold these items, item i under id i
SourceOf(mc, cc, items) ==
    [mcols |-> mc, ccols |-> cc,
     movies |-> [i \in DOMAIN items |->
                   [id |-> Num(i), title |-> items[i].title,
                    overview |-> items[i].overview, genres |-> items[i].genres,
                    keywords |-> items[i].keywords,
                    vote_average |-> items[i].vote_average,
                    vote_count |-> items[i].vote_count,
                    release_date |-> items[i].release_date,
                    poster_path |-> items[i].poster_path]],
     credits |-> [i \in DOMAIN items |->
                   [id |-> Num(i), cast |-> items[i].cast, crew |-> items[i].crew]]]

\* the non-empty sequences of at most MaxItems elements of S
SeqsOf(S) == UNION {[1..k -> S] : k \in 1..MaxItems}

Sources(I) == {SourceOf(MovieCols, CreditCols, items) : items \in SeqsOf(I)}

Ns == (0 - 1)..MaxN

\* ------------------------------------------------------- the specifications
NoMerge == [called |-> FALSE, raised |-> "none", cols |-> {}]

\* the state after MovieRecommender(), with an empty artifact directory
Init ==
    /\ cell = Nan /\ parsed = NoParse
    /\ mcols = {} /\ ccols = {} /\ merged = NoMerge
    /\ raw = None /\ df = None /\ similarity = None /\ index_map = <<>>
    /\ disk = NoDisk /\ pc = "idle" /\ entry = NoEntry /\ out = NoOut

\* ---- parsing
InitParse ==
    /\ cell \in ParseCells /\ parsed = NoParse
    /\ mcols = {} /\ ccols = {} /\ merged = NoMerge
    /\ raw = None /\ df = None /\ similarity = None /\ index_map = <<>>
    /\ disk = NoDisk /\ pc = "idle" /\ entry = NoEntry /\ out = NoOut

NextParse == ParseListColumnCall \/ GetDirectorCall

SpecParse == InitParse /\ [][NextParse]_vars

\* ---- recommend on a fitted instance
RecTitles == {<<"a">>, <<"b">>}

RecItems ==
    {ItemOf(Text(t), Text(o), List(<<>>), Num(7), Num(600), Text(<<"p">>)) :
        t \in RecTitles,
        o \in {<<"a", "b">>, <<"a", "b", " ", "b", "b">>, <<"b", "b">>, <<"a", "n">>}}

\* the caller fits a fresh instance once, as train.py does, and readers query it
NextRecommend ==
    \/ IsFresh /\ FitTags(Sources(RecItems))
    \/ FitSimilarity
    \/ FitIndex
    \/ Recommend(RecTitles, Ns)

SpecRecommend == Init /\ [][NextRecommend]_vars

\* ---- search on a fitted instance
SearchTitles == {<<"D", "a">>, <<"d", "a", "b">>, <<"b">>, <<"A">>}

SearchItems ==
    {ItemOf(Text(t), Text(<<"a", "b">>), List(<<>>), Num(7), Num(600), Text(<<"p">>)) :
        t \in SearchTitles}

Queries == {<<>>, <<"a">>, <<"D", "A">>, <<"B">>, <<"b", "b">>}

NextSearch ==
    \/ IsFresh /\ FitTags(Sources(SearchItems))
    \/ FitSimilarity
    \/ FitIndex
    \/ Search(Queries, Ns)

SpecSearch == Init /\ [][NextSearch]_vars

\* ---- top_rated on a fitted instance
VoteItems ==
    {ItemOf(Text(<<"a">>), Text(<<"a", "b">>), List(<<>>), Num(va), Num(vc), Text(<<"p">>)) :
        va \in {6, 7}, vc \in {VoteThreshold, VoteThreshold + 1}}

NextTopRated ==
    \/ IsFresh /\ FitTags(Sources(VoteItems))
    \/ FitSimilarity
    \/ FitIndex
    \/ TopRated(Ns)

SpecTopRated == Init /\ [][NextTopRated]_vars

\* ---- the build, on items with absent and empty attributes
BuildItems ==
    {ItemOf(Text(<<"a">>), o, g, Num(7), Num(600), p) :
        o \in {Nan, Text(<<" ">>), Text(<<"a", "b">>)},
        g \in {List(<<>>), List(<<Genre>>)},
        p \in {Nan, Text(<<"p">>)}}

NextBuild ==
    \/ IsFresh /\ FitTags(Sources(BuildItems))
    \/ FitSimilarity
    \/ FitIndex

SpecBuild == Init /\ [][NextBuild]_vars

\* ---- load_and_merge on CSVs of every column shape
MergeInputs ==
    {"id", "movie_id", "title", "poster_path"}

FixedMovieCols == MovieCols \ MergeInputs

FixedCreditCols == CreditCols \ MergeInputs

IdNames == {"id", "movie_id"}

InitMerge ==
    /\ \E mi \in IdNames, ci \in IdNames, mo \in SUBSET {"title", "poster_path"},
          co \in SUBSET {"title", "poster_path"} :
          /\ mcols = FixedMovieCols \cup {mi} \cup mo
          /\ ccols = FixedCreditCols \cup {ci} \cup co
    /\ merged = NoMerge
    /\ cell = Nan /\ parsed = NoParse
    /\ raw = None /\ df = None /\ similarity = None /\ index_map = <<>>
    /\ disk = NoDisk /\ pc = "idle" /\ entry = NoEntry /\ out = NoOut

LoadAndMergeCall ==
    /\ ~merged.called
    /\ LET m == MergeColumns(mcols, ccols)
       IN merged' = [called |-> TRUE, raised |-> m.raised, cols |-> m.cols]
    /\ UNCHANGED <<cell, parsed, mcols, ccols, Instance, out>>

NextMerge == LoadAndMergeCall

SpecMerge == InitMerge /\ [][NextMerge]_vars

\* ---- one instance and one artifact directory: fit, save, load, queries
ItemA == ItemOf(Text(<<"a">>), Text(<<"a", "b">>), List(<<>>), Num(7), Num(600), Text(<<"p">>))

ItemB == ItemOf(Text(<<"b">>), Text(<<"b", "b">>), List(<<>>), Num(6), Num(700), Text(<<"p">>))

ItemStop == ItemOf(Text(<<"a">>), Text(<<"a", "n">>), List(<<>>), Num(6), Num(700), Text(<<"p">>))

LifeSources ==
    {SourceOf(MovieCols, CreditCols, <<ItemA, ItemB>>),
     SourceOf(MovieCols, CreditCols, <<ItemB, ItemA, ItemA>>),
     SourceOf(MovieCols, CreditCols, <<ItemStop>>),
     SourceOf(TmdbMovieCols, TmdbCreditCols, <<ItemA, ItemB>>)}

NextLife ==
    \/ New
    \/ FitTags(LifeSources)
    \/ FitSimilarity
    \/ FitIndex
    \/ SaveSimilarity
    \/ SaveCatalog
    \/ SaveInterrupted
    \/ LoadCatalog
    \/ LoadSimilarity
    \/ LoadIndex
    \/ RemoveSimilarityBlob
    \/ Recommend({<<"a">>}, {1})
    \/ Search({<<"a">>}, {1})
    \/ TopRated({1})

Spec == Init /\ [][NextLife]_vars

\* ================================================================ the claims
RecommendReturned == out.op = "recommend" /\ out.raised = "none"

(* C1: recommend(title, n) returns exactly min(max(n, 1), |Catalog| - 1)   *)
(* rows, n being clamped to [1, |Catalog| - 1], and none of them is the    *)
(* position the title resolves to.                                         *)
C1_ClampedCount ==
    RecommendReturned =>
        /\ Len(out.rows) = Min(Max(out.n, 1), Len(df[1]) - 1)
        /\ \A i \in DOMAIN out.rows : out.rows[i].pos # Lookup(index_map, out.title)

(* C2: the rows recommend returns are in non-increasing order of their     *)
(* similarity to the queried row, and two rows of equal similarity appear  *)
(* in increasing catalog position.                                         *)
C2_SortedStable ==
    RecommendReturned =>
        LET idx == Lookup(index_map, out.title)
            rows == out.rows
        IN /\ \A i \in DOMAIN rows : rows[i].score = similarity[1][idx][rows[i].pos]
           /\ \A i, j \in DOMAIN rows :
                 i < j => /\ ScoreGe(rows[i].score, rows[j].score)
                          /\ ScoreEq(rows[i].score, rows[j].score)
                                => rows[i].pos < rows[j].pos

\* C2's case: two returned rows tie on a positive similarity
C2_Witness ==
    /\ RecommendReturned
    /\ Len(out.rows) >= 2
    /\ out.rows[1].score[1] > 0
    /\ ScoreEq(out.rows[1].score, out.rows[2].score)

\* the instance holds one completed build: matrix and index belong to df
Complete ==
    /\ df # None /\ similarity # None
    /\ index_map = IndexOf(df[1])
    /\ LET r == build_similarity_matrix(df[1])
       IN r.raised = "none" /\ similarity[1] = r.val

(* C3: a load of a directory holding exactly one of the two blobs fails    *)
(* and, on a fresh instance, leaves catalog, matrix and title index unset. *)
C3_NoPartialInit ==
    (out.op = "load" /\ out.raised = "FileNotFoundError"
        /\ entry.fresh /\ entry.blobs = 1) => IsFresh

(* C4: after any sequence of fit, save (also overwriting, also interrupted *)
(* between its two writes) and load on one directory, a load that succeeds *)
(* yields a catalog and a matrix of the same build.                        *)
C4_LoadedPairConsistent ==
    (out.op = "load" /\ out.raised = "none") =>
        /\ df # None /\ similarity # None
        /\ LET r == build_similarity_matrix(df[1])
           IN r.raised = "none" /\ similarity[1] = r.val

QueryRan == out.op \in {"recommend", "search", "top_rated"}

(* C5: whenever a query runs on the instance, interleaved with a fit or a  *)
(* load that is running, has completed or has failed part-way, it sees     *)
(* catalog, matrix and index all unset or all of one completed build.      *)
C5_NoPartialVisible == QueryRan => (IsFresh \/ Complete)

\* a is contained in t without regard to case, character by character
ContainsNoCase(t, q) ==
    \E k \in 0..(Len(t) - Len(q)) :
        \A i \in 1..Len(q) : LowerChar(t[k + i]) = LowerChar(q[i])

CatalogRows == IF df = None THEN <<>> ELSE df[1]

\* first catalog position of a title (0 when it is no title of the catalog)
FirstPos(t) ==
    IF \E i \in DOMAIN CatalogRows : CatalogRows[i].title.txt = t
    THEN CHOOSE i \in DOMAIN CatalogRows :
            /\ CatalogRows[i].title.txt = t
            /\ \A j \in 1..(i - 1) : CatalogRows[j].title.txt # t
    ELSE 0

\* the number of distinct titles of the title index that contain q
Matching(q) ==
    Cardinality({k \in DOMAIN index_map : ContainsNoCase(index_map[k].title, q)})

SearchBasics ==
    /\ out.raised = "none"
    /\ \A k \in DOMAIN out.titles :
          /\ ContainsNoCase(out.titles[k], out.title)
          /\ FirstPos(out.titles[k]) > 0
    /\ \A k, l \in DOMAIN out.titles :
          k < l => FirstPos(out.titles[k]) < FirstPos(out.titles[l])
    /\ Matching(out.title) = 0 => out.titles = <<>>

(* C6 as stated: search returns only titles that contain q without regard  *)
(* to case, at most limit of them for every integer limit, in catalog      *)
(* order, and an empty list when nothing matches.                          *)
C6_AtMostLimit ==
    out.op = "search" => (SearchBasics /\ Len(out.titles) <= out.n)

(* C6 amended: as C6, but at most limit titles only for limit >= 0; for a  *)
(* negative limit search returns all matches but the last -limit of them.  *)
C6_SearchSlice ==
    out.op = "search" =>
        /\ SearchBasics
        /\ out.n >= 0 => Len(out.titles) <= out.n
        /\ out.n < 0 => Len(out.titles) = Max(Matching(out.title) + out.n, 0)

\* C6's case: a query in another case than the titles, cut off by the limit
C6_Witness ==
    /\ out.op = "search" /\ out.n = 2 /\ Len(out.titles) = 2
    /\ Matching(out.title) = 3
    /\ \E k \in DOMAIN out.titles : ~Contains(out.titles[k], out.title)

C8_MergeHandlesShapes ==
    (merged.called /\ mcols \cap IdNames # {} /\ ccols \cap IdNames # {}
        /\ "title" \in mcols \cup ccols
        /\ "poster_path" \notin mcols \cap ccols) =>
        /\ merged.raised = "none"
        /\ merged.cols = {Col(Needed[i]) : i \in DOMAIN Needed}

(* C9: parse_list_column and get_director never raise, and return the      *)
(* empty list for an absent or malformed cell.                             *)
C9_NeverRaises ==
    parsed.fn # "" =>
        /\ parsed.raised = "none"
        /\ (cell.k # "str" \/ cell.syn # "list") => parsed.val = <<>>

\* an item with one of its attributes absent
Absent(r) ==
    \E c \in {r.overview, r.genres, r.keywords, r.cast, r.crew,
              r.vote_average, r.release_date, r.poster_path,
              r.id, r.title, r.vote_count} : c.k = "nan"

Ids(rows) == [i \in DOMAIN rows |-> rows[i].id.n]

=============================================================================
